---- MODULE Spec2Model ----
(***************************************************************************)
(* Model of websocket_monitor.py: the module-level script (lines 134-148)  *)
(* loads two credentials from the environment, builds a WebSocketApp with  *)
(* the four handlers on_ws_open / on_ws_message / on_ws_error /            *)
(* on_ws_close and drives it with run_forever(dispatcher=rel,              *)
(* reconnect=120).                                                         *)
(*                                                                         *)
(* The handlers are translated from their bodies.  The way the handlers    *)
(* are invoked is the contract of websocket-client's WebSocketApp with a   *)
(* custom dispatcher:                                                      *)
(*   - every handler runs inside _callback, which catches an exception of  *)
(*     the handler and passes it to on_error; nothing else happens;        *)
(*   - after connect, on_open runs to completion and only then is the      *)
(*     socket registered for reading;                                      *)
(*   - a failed connect or a WebSocketConnectionClosedException while      *)
(*     reading goes to handleDisconnect: on_error, then one timer of       *)
(*     `reconnect` seconds that calls setSock(reconnecting=True);          *)
(*   - a CLOSE frame goes to teardown: socket closed, on_close, no timer.  *)
(* "Sent" means passed to ws.send.                                         *)
(***************************************************************************)
EXTENDS Integers, Sequences, FiniteSets, TLC

VARIABLES pc, env, env_consts, wsCreated, attempts, opened, sock,
          sigCalls, sigRet, wire, out, inbox, timers,
          nErrors, errKind, nFrames, arrived

vars == <<pc, env, env_consts, wsCreated, attempts, opened, sock,
          sigCalls, sigRet, wire, out, inbox, timers,
          nErrors, errKind, nFrames, arrived>>

(* ----------------------------- bounds ---------------------------------- *)
MaxSessions == 3
MaxFrames == 2
TickStep == 60

(* --------------------------- program constants ------------------------- *)
ReconnectDelay == 120

EnvKeys == <<"IP_USERNAME", "IP_PASSWORD">>

InboundMarker == "v"
OutboundMarker == "^"

(* values get_signature can return; "" is the empty quoted literal *)
Signatures == {"", "abc123", "zz9"}
Payloads == {"PING", "SET_ITEMS=coins~5"}

NoSig == "<none>"
Raised == "<raised>"

Sessions == 1..MaxSessions

(* ----------------------------- log lines ------------------------------- *)
Line(s, text) == [s |-> s, kind |-> "text", marker |-> "", msg |-> text, shows |-> {}]

(* a line of log_ws_message; shows: the message_data keys it renders *)
FrameLine(s, marker, msg, shows) ==
    [s |-> s, kind |-> "frame", marker |-> marker, msg |-> msg, shows |-> shows]

(* ------------------- Credential loading (lines 12-31) ------------------ *)
(* mutant: the KeyError is swallowed after the diagnostic *)
get_env_var_swallow(key) ==
    [raised |-> FALSE,
     printed |-> IF key \in env
                 THEN <<>>
                 ELSE <<Line(0, "Missing environment variable: " \o key)>>]

(* os.environ[key]; on KeyError print the diagnostic and re-raise *)
get_env_var(key) ==
    IF key \in env
    THEN [raised |-> FALSE, printed |-> <<>>]
    ELSE [raised |-> TRUE,
          printed |-> <<Line(0, "Missing environment variable: " \o key)>>]

(* the loop of get_env_consts over the keys i..Len(EnvKeys), in dict order:
   the keys loaded and the lines printed up to the first raise *)
RECURSIVE LoadFrom(_)
LoadFrom(i) ==
    IF i > Len(EnvKeys)
    THEN [raised |-> FALSE, loaded |-> {}, printed |-> <<>>]
    ELSE LET r == get_env_var(EnvKeys[i])
         IN IF r.raised
            THEN [raised |-> TRUE, loaded |-> {}, printed |-> r.printed]
            ELSE LET rest == LoadFrom(i + 1)
                 IN [raised |-> rest.raised,
                     loaded |-> IF rest.raised THEN {} ELSE {EnvKeys[i]} \cup rest.loaded,
                     printed |-> r.printed \o rest.printed]

(* ------------------------- Handlers (lines 67-131) --------------------- *)
(* message_data of log_ws_message: the length is computed, not printed *)
message_data(raw_message, received) ==
    [length |-> Len(raw_message), message |-> raw_message, received |-> received]

(* one printed line: f"{direction_indicator}[{time}] {message}" renders the
   direction, message_data['time'] and message_data['message'] *)
log_ws_message(s, raw_message, received) ==
    LET md == message_data(raw_message, received)
        direction_indicator == IF md.received THEN InboundMarker ELSE OutboundMarker
    IN <<FrameLine(s, direction_indicator, md.message, {"time", "message"})>>

on_ws_message(s, raw_message) == log_ws_message(s, raw_message, TRUE)

(* mutant: every error is reported with timestamp, error and traceback *)
on_ws_error_always_trace(s, error) ==
    <<Line(s, "timestamp"), Line(s, "error"), Line(s, "traceback")>>

(* error is "closed" for WebSocketConnectionClosedException, "other" else *)
on_ws_error(s, error) ==
    IF error = "closed"
    THEN <<Line(s, "Connection closed. Retrying...")>>
    ELSE <<Line(s, "timestamp"), Line(s, "error"), Line(s, "traceback")>>

on_ws_close(s) == <<Line(s, "### closed ###")>>

(* mutant: the signature is sent quoted, as it stands in the script tag *)
LoginFrame_quoted(signature) == "LOGIN='" \o signature \o "'"

(* f"LOGIN={signature}" *)
LoginFrame(signature) == "LOGIN=" \o signature

(* ------------------------------ state ---------------------------------- *)
(* pc: position of the single thread of control
     boot       before get_env_consts (line 135)
     exited     KeyError left the script (line 18)
     ready      env_consts loaded
     created    WebSocketApp built (line 138)
     connecting inside setSock, sock.connect in progress
     acquiring  inside on_ws_open, blocked in asyncio.run(get_signature())
     streaming  event loop idle, socket registered for reading
     cooldown   event loop idle, reconnect timer pending, no socket read
     closed     teardown done after a CLOSE frame, nothing registered
     aborted    rel.abort ran (signal 2)                                   *)
LoopIdle == {"streaming", "cooldown", "closed"}

Init ==
    /\ pc = "boot"
    /\ env \in SUBSET {EnvKeys[i] : i \in 1..Len(EnvKeys)}
    /\ env_consts = {}
    /\ wsCreated = FALSE
    /\ attempts = 0
    /\ opened = {}
    /\ sock = "none"
    /\ sigCalls = [s \in Sessions |-> 0]
    /\ sigRet = [s \in Sessions |-> NoSig]
    /\ wire = <<>>
    /\ out = <<>>
    /\ inbox = <<>>
    /\ timers = <<>>
    /\ nErrors = 0
    /\ errKind = "none"
    /\ nFrames = 0
    /\ arrived = <<>>

(* frames passed to ws.send during session s *)
SentOn(s) == SelectSeq(wire, LAMBDA w : w.s = s)

(* inbound frame lines printed during session s *)
InboundLogged(s) ==
    SelectSeq(out, LAMBDA l : l.s = s /\ l.kind = "frame" /\ l.marker = InboundMarker)

(* outbound frame lines printed during session s *)
OutboundLogged(s) ==
    SelectSeq(out, LAMBDA l : l.s = s /\ l.kind = "frame" /\ l.marker = OutboundMarker)

(* -------------------------- startup (134-146) -------------------------- *)
get_env_consts ==
    /\ pc = "boot"
    /\ LET r == LoadFrom(1)
       IN /\ out' = out \o r.printed
          /\ IF r.raised
             THEN pc' = "exited" /\ env_consts' = env_consts
             ELSE pc' = "ready" /\ env_consts' = r.loaded
    /\ UNCHANGED <<arrived, env, wsCreated, attempts, opened, sock, sigCalls, sigRet,
                   wire, inbox, timers, nErrors, errKind, nFrames>>

WebSocketApp ==
    /\ pc = "ready"
    /\ wsCreated' = TRUE
    /\ pc' = "created"
    /\ UNCHANGED <<arrived, env, env_consts, attempts, opened, sock, sigCalls, sigRet,
                   wire, out, inbox, timers, nErrors, errKind, nFrames>>

(* setSock: a new WebSocket replaces the old one and connect starts *)
setSock ==
    /\ attempts < MaxSessions
    /\ attempts' = attempts + 1
    /\ sock' = "connecting"
    /\ inbox' = <<>>
    /\ pc' = "connecting"

(* run_forever calls setSock() once, before the event loop starts *)
run_forever ==
    /\ pc = "created"
    /\ setSock
    /\ UNCHANGED <<arrived, env, env_consts, wsCreated, opened, sigCalls, sigRet,
                   wire, out, timers, nErrors, errKind, nFrames>>

(* ------------------- reconnect timer (reconnect=120) ------------------- *)
RemoveAt(seq, i) == [j \in 1..(Len(seq) - 1) |-> IF j < i THEN seq[j] ELSE seq[j + 1]]

(* mutant: the timer fires without waiting *)
TimerDue_early(t) == t <= ReconnectDelay

(* a timer fires when its delay has fully elapsed *)
TimerDue(t) == t = 0

(* mutant: handleDisconnect with no reconnect timer *)
ScheduleReconnect_none(ts) == ts

(* mutant: the reconnect is scheduled twice *)
ScheduleReconnect_twice(ts) == ts \o <<ReconnectDelay, ReconnectDelay>>

(* dispatcher.reconnect(reconnect, setSock): one timer of 120 *)
ScheduleReconnect(ts) == Append(ts, ReconnectDelay)

Min(a, b) == IF a <= b THEN a ELSE b

(* time passes in steps of TickStep; a due timer is not overslept *)
Tick ==
    /\ pc \notin {"exited", "aborted"}
    /\ timers # <<>>
    /\ \A i \in 1..Len(timers) : timers[i] > 0
    /\ timers' = [i \in 1..Len(timers) |-> timers[i] - Min(TickStep, timers[i])]
    /\ UNCHANGED <<arrived, pc, env, env_consts, wsCreated, attempts, opened, sock,
                   sigCalls, sigRet, wire, out, inbox, nErrors, errKind, nFrames>>

(* the event loop runs a due timer: setSock(reconnecting=True) *)
Reconnect ==
    /\ pc \in LoopIdle
    /\ \E i \in 1..Len(timers) :
          /\ TimerDue(timers[i])
          /\ timers' = RemoveAt(timers, i)
    /\ setSock
    /\ UNCHANGED <<arrived, env, env_consts, wsCreated, opened, sigCalls, sigRet,
                   wire, out, nErrors, errKind, nFrames>>

(* handleDisconnect(e, reconnecting): on_error unless the failed connect was
   a reconnect attempt, then the reconnect timer *)
handleDisconnect(error, notify) ==
    /\ out' = IF notify THEN out \o on_ws_error(attempts, error) ELSE out
    /\ timers' = ScheduleReconnect(timers)
    /\ nErrors' = nErrors + 1
    /\ errKind' = error
    /\ pc' = "cooldown"

(* sock.connect raises; whether on_error hears of a failed reconnect
   attempt differs between releases of the library *)
ConnectFail(error, notify) ==
    /\ pc = "connecting"
    /\ notify \in (IF attempts = 1 THEN {TRUE} ELSE BOOLEAN)
    /\ sock' = "none"
    /\ handleDisconnect(error, notify)
    /\ UNCHANGED <<arrived, env, env_consts, wsCreated, attempts, opened, sigCalls,
                   sigRet, wire, inbox, nFrames>>

(* --------------------------- on_ws_open (103-116) ---------------------- *)
(* mutant: the acquisition is guarded by a watchdog timer *)
on_ws_open_watchdog ==
    /\ pc = "connecting"
    /\ sock' = "open"
    /\ opened' = opened \cup {attempts}
    /\ out' = out \o <<Line(attempts, "Opened connection."),
                       Line(attempts, "Acquiring signature...")>>
    /\ sigCalls' = [sigCalls EXCEPT ![attempts] = @ + 1]
    /\ timers' = Append(timers, ReconnectDelay)
    /\ pc' = "acquiring"
    /\ UNCHANGED <<arrived, env, env_consts, wsCreated, attempts, sigRet, wire, inbox,
                   nErrors, errKind, nFrames>>

(* connect succeeded; on_open starts: two prints, then the blocking call *)
on_ws_open ==
    /\ pc = "connecting"
    /\ sock' = "open"
    /\ opened' = opened \cup {attempts}
    /\ out' = out \o <<Line(attempts, "Opened connection."),
                       Line(attempts, "Acquiring signature...")>>
    /\ sigCalls' = [sigCalls EXCEPT ![attempts] = @ + 1]
    /\ pc' = "acquiring"
    /\ UNCHANGED <<arrived, env, env_consts, wsCreated, attempts, sigRet, wire, inbox,
                   timers, nErrors, errKind, nFrames>>

(* mutant: the login frame is sent twice *)
on_ws_open_return_twice(signature) ==
    /\ pc = "acquiring"
    /\ signature \in Signatures
    /\ sigRet' = [sigRet EXCEPT ![attempts] = signature]
    /\ out' = out \o <<Line(attempts, "Signature acquired."),
                       Line(attempts, "Logging in...")>>
    /\ wire' = wire \o <<[s |-> attempts, frame |-> LoginFrame(signature)],
                         [s |-> attempts, frame |-> LoginFrame(signature)]>>
    /\ pc' = "streaming"
    /\ UNCHANGED <<arrived, env, env_consts, wsCreated, attempts, opened, sock, sigCalls,
                   inbox, timers, nErrors, errKind, nFrames>>

(* get_signature returns; two prints, ws.send(LOGIN=...); on_open returns and
   the socket is registered for reading.  Nothing is printed for the frame. *)
on_ws_open_return(signature) ==
    /\ pc = "acquiring"
    /\ signature \in Signatures
    /\ sigRet' = [sigRet EXCEPT ![attempts] = signature]
    /\ out' = out \o <<Line(attempts, "Signature acquired."),
                       Line(attempts, "Logging in...")>>
    /\ wire' = Append(wire, [s |-> attempts, frame |-> LoginFrame(signature)])
    /\ pc' = "streaming"
    /\ UNCHANGED <<arrived, env, env_consts, wsCreated, attempts, opened, sock, sigCalls,
                   inbox, timers, nErrors, errKind, nFrames>>

(* get_signature raises (navigation, locator, soup.find(...) is None, split
   index): line 113 has no handler, _callback passes the exception to
   on_ws_error and the socket is registered for reading all the same *)
on_ws_open_raise ==
    /\ pc = "acquiring"
    /\ sigRet' = [sigRet EXCEPT ![attempts] = Raised]
    /\ out' = out \o on_ws_error(attempts, "other")
    /\ nErrors' = nErrors + 1
    /\ errKind' = "other"
    /\ pc' = "streaming"
    /\ UNCHANGED <<arrived, env, env_consts, wsCreated, attempts, opened, sock, sigCalls,
                   wire, inbox, timers, nFrames>>

(* ------------------------------ the peer ------------------------------- *)
(* the server puts a frame on the open connection; it waits in the socket
   buffer until the event loop reads it *)
PeerSend(p) ==
    /\ sock = "open"
    /\ pc \in {"acquiring", "streaming"}
    /\ nFrames < MaxFrames
    /\ inbox' = Append(inbox, p)
    /\ arrived' = Append(arrived, [s |-> attempts, msg |-> p])
    /\ nFrames' = nFrames + 1
    /\ UNCHANGED <<pc, env, env_consts, wsCreated, attempts, opened, sock,
                   sigCalls, sigRet, wire, out, timers, nErrors, errKind>>

(* ----------------------- read events of the loop ----------------------- *)
(* mutant: the socket is read while on_open is still running *)
Readable_early == pc \in {"acquiring", "streaming"}

(* the socket is read only by the event loop, after on_open has returned *)
Readable == pc = "streaming"

(* mutant: the newest buffered frame is handled first *)
read_frame_lifo ==
    /\ Readable
    /\ inbox # <<>>
    /\ out' = out \o on_ws_message(attempts, inbox[Len(inbox)])
    /\ inbox' = SubSeq(inbox, 1, Len(inbox) - 1)
    /\ UNCHANGED <<arrived, pc, env, env_consts, wsCreated, attempts, opened, sock,
                   sigCalls, sigRet, wire, timers, nErrors, errKind, nFrames>>

(* mutant: the handler answers every frame *)
read_frame_reply ==
    /\ Readable
    /\ inbox # <<>>
    /\ out' = out \o on_ws_message(attempts, Head(inbox))
    /\ wire' = Append(wire, [s |-> attempts, frame |-> "PONG"])
    /\ inbox' = Tail(inbox)
    /\ UNCHANGED <<arrived, pc, env, env_consts, wsCreated, attempts, opened, sock,
                   sigCalls, sigRet, timers, nErrors, errKind, nFrames>>

(* a data frame: on_message(ws, data) *)
read_frame ==
    /\ Readable
    /\ inbox # <<>>
    /\ out' = out \o on_ws_message(attempts, Head(inbox))
    /\ inbox' = Tail(inbox)
    /\ UNCHANGED <<arrived, pc, env, env_consts, wsCreated, attempts, opened, sock,
                   sigCalls, sigRet, wire, timers, nErrors, errKind, nFrames>>

(* the connection was lost: recv raises WebSocketConnectionClosedException *)
read_closed ==
    /\ pc = "streaming"
    /\ inbox = <<>>
    /\ sock' = "lost"
    /\ handleDisconnect("closed", TRUE)
    /\ UNCHANGED <<arrived, env, env_consts, wsCreated, attempts, opened, sigCalls,
                   sigRet, wire, inbox, nFrames>>

(* the server sent a CLOSE frame: teardown, then on_close; no timer *)
read_close_frame ==
    /\ pc = "streaming"
    /\ inbox = <<>>
    /\ sock' = "none"
    /\ out' = out \o on_ws_close(attempts)
    /\ pc' = "closed"
    /\ UNCHANGED <<arrived, env, env_consts, wsCreated, attempts, opened, sigCalls,
                   sigRet, wire, inbox, timers, nErrors, errKind, nFrames>>

(* ------------------------- signal 2 (line 147) ------------------------- *)
(* positions of the running process at which signal 2 can arrive *)
Running == {"connecting", "acquiring"} \cup LoopIdle

(* signal 2 ends the process: rel.abort stops the event loop and the script
   has nothing after rel.dispatch(); the script itself closes no socket and
   cancels no timer *)
Interrupt ==
    /\ pc \in Running
    /\ pc' = "aborted"
    /\ UNCHANGED <<arrived, env, env_consts, wsCreated, attempts, opened, sock, sigCalls,
                   sigRet, wire, out, inbox, timers, nErrors, errKind, nFrames>>

Next ==
    \/ get_env_consts
    \/ WebSocketApp
    \/ run_forever
    \/ Tick
    \/ Reconnect
    \/ \E e \in {"closed", "other"}, n \in BOOLEAN : ConnectFail(e, n)
    \/ on_ws_open
    \/ \E sig \in Signatures : on_ws_open_return(sig)
    \/ on_ws_open_raise
    \/ \E p \in Payloads : PeerSend(p)
    \/ read_frame
    \/ read_closed
    \/ read_close_frame
    \/ Interrupt

Spec == Init /\ [][Next]_vars

(* ----------------------------- lifecycle ------------------------------- *)
(* the login frame of the current session has been sent *)
LoggedIn == attempts >= 1 /\ SentOn(attempts) # <<>>

State ==
    CASE pc \in {"boot", "ready", "created", "exited", "aborted"} -> "Disconnected"
      [] pc = "connecting" -> "Connecting"
      [] pc = "acquiring" -> "AwaitingAuth"
      [] pc = "streaming" /\ LoggedIn -> "Authenticated"
      [] pc = "streaming" /\ ~LoggedIn -> "OpenUnauthenticated"
      [] pc = "cooldown" -> "CooldownBeforeRetry"
      [] pc = "closed" -> "Closed"

TypeOK ==
    /\ pc \in {"boot", "exited", "ready", "created", "connecting", "acquiring",
               "streaming", "cooldown", "closed", "aborted"}
    /\ attempts \in 0..MaxSessions
    /\ opened \subseteq 1..attempts
    /\ sock \in {"none", "connecting", "open", "lost"}
    /\ \A i \in 1..Len(timers) : timers[i] \in 0..ReconnectDelay
    /\ nFrames \in 0..MaxFrames

(* ======================================================================= *)
(*                               Properties                                *)
(* ======================================================================= *)
AttemptDone(s) == ~(s = attempts /\ pc = "connecting")

LoginCount(s) == IF sigRet[s] \in Signatures THEN 1 ELSE 0

(* C1 (as stated): every connection attempt makes exactly one get_signature
   call, every successful acquisition is followed by exactly one login
   frame, and in such a session no inbound frame is logged before it. *)
C1_OneCallPerAttempt ==
    \A s \in 1..attempts :
        /\ AttemptDone(s) => sigCalls[s] = 1
        /\ Len(SentOn(s)) = LoginCount(s)
        /\ (InboundLogged(s) # <<>> /\ sigRet[s] # Raised) => SentOn(s) # <<>>

(* C1 (amended): exactly one get_signature call per connection attempt
   whose transport opens and none for an attempt whose connect fails;
   exactly one login frame per successful acquisition, sent before any
   inbound frame of that session is logged. *)
C1_OneCallPerOpen ==
    \A s \in 1..attempts :
        /\ sigCalls[s] = (IF s \in opened THEN 1 ELSE 0)
        /\ Len(SentOn(s)) = LoginCount(s)
        /\ (InboundLogged(s) # <<>> /\ sigRet[s] # Raised) => SentOn(s) # <<>>

C1_Witness ==
    /\ \E s \in 1..attempts :
          sigCalls[s] = 1 /\ Len(SentOn(s)) = 1 /\ InboundLogged(s) # <<>>
    /\ \E t \in 1..attempts : AttemptDone(t) /\ t \notin opened

(* C2: no inbound frame is logged in a session whose LOGIN frame has not
   been sent, whatever became of the signature acquisition. *)
C2_NoInboundBeforeLogin ==
    \A s \in 1..attempts : InboundLogged(s) # <<>> => SentOn(s) # <<>>

(* C3: the frame LOGIN= with an empty signature is never sent, and a session
   whose acquisition returned "" is on the retry path, not streaming. *)
C3_NeverEmptyLogin ==
    /\ \A i \in 1..Len(wire) : wire[i].frame # "LOGIN="
    /\ \A s \in 1..attempts : sigRet[s] = "" => ~(s = attempts /\ pc = "streaming")

(* a streaming session was closed by the peer and no attempt followed yet *)
PeerClosed == LoggedIn /\ pc \in {"cooldown", "closed"}

(* C4: after a close-by-peer of a streaming session exactly one reconnect
   timer is pending, and the next connection attempt is made by that timer
   only when the full delay of 120 has elapsed. *)
C4_CooldownThenOneAttempt ==
    [][ /\ PeerClosed' => (Len(timers') = 1 /\ timers'[1] <= ReconnectDelay)
        /\ (PeerClosed /\ attempts' = attempts + 1) => (timers = <<0>> /\ timers' = <<>>)
      ]_vars

(* C5: once the signature acquisition of the current session has raised,
   the transport is not open and the session is in cooldown with its one
   reconnect timer (or already past it, in a new attempt). *)
C5_AuthFailureCloses ==
    (attempts >= 1 /\ sigRet[attempts] = Raised /\ pc # "aborted")
        => (sock # "open" /\ pc = "cooldown" /\ Len(timers) = 1)

(* C6: a WebSocketConnectionClosedException in the Authenticated state
   prints the one informational line and nothing else, and leaves exactly
   one reconnect timer of the full delay. *)
C6_ClosedErrorInfoOneTimer ==
    [][ (State = "Authenticated" /\ nErrors' = nErrors + 1 /\ errKind' = "closed")
          => /\ out' = Append(out, Line(attempts, "Connection closed. Retrying..."))
             /\ timers = <<>>
             /\ timers' = <<ReconnectDelay>>
             /\ pc' = "cooldown"
      ]_vars

C6_Witness ==
    /\ pc = "cooldown"
    /\ LoggedIn
    /\ errKind = "closed"
    /\ timers = <<ReconnectDelay>>
    /\ out[Len(out)] = Line(attempts, "Connection closed. Retrying...")

(* C7: every exception other than "connection already closed", in whatever
   state it occurs, prints timestamp, error and trace, schedules exactly
   one retry, and leaves the process running. *)
C7_OtherErrorTraceOneRetry ==
    [][ (nErrors' = nErrors + 1 /\ errKind' = "other")
          => /\ out' = out \o <<Line(attempts, "timestamp"), Line(attempts, "error"),
                                Line(attempts, "traceback")>>
             /\ Len(timers') = Len(timers) + 1
             /\ Len(timers') = 1
             /\ pc' \notin {"exited", "aborted"}
      ]_vars

AllKeys == {EnvKeys[i] : i \in 1..Len(EnvKeys)}

(* C8: with a required environment variable missing the process never gets
   past startup: no WebSocketApp, no connection attempt, no socket; and once
   it has stopped, the output is one diagnostic naming a missing variable. *)
C8_MissingEnvNoStartup ==
    env # AllKeys =>
        /\ pc \in {"boot", "exited"}
        /\ ~wsCreated /\ attempts = 0 /\ sock = "none" /\ env_consts = {}
        /\ pc = "exited" =>
              \E k \in AllKeys \ env :
                  out = <<Line(0, "Missing environment variable: " \o k)>>

C8_Witness ==
    /\ pc = "exited"
    /\ env = {"IP_USERNAME"}
    /\ out = <<Line(0, "Missing environment variable: IP_PASSWORD")>>

(* C9: the first frame sent in a session is LOGIN= followed by exactly the
   string get_signature returned during that session. *)
C9_LoginIsRawSignature ==
    \A s \in 1..attempts :
        SentOn(s) # <<>> =>
            /\ sigCalls[s] = 1
            /\ sigRet[s] \in Signatures
            /\ SentOn(s)[1].frame = "LOGIN=" \o sigRet[s]

C9_Witness ==
    \E s, t \in 1..attempts :
        /\ s < t
        /\ SentOn(s) # <<>> /\ SentOn(t) # <<>>
        /\ sigRet[s] = "zz9" /\ sigRet[t] = "abc123"
        /\ SentOn(t)[1].frame = "LOGIN=abc123"

(* C10: every frame sent has exactly one printed line with the outbound
   marker and the frame as its message; in particular the LOGIN frame. *)
C10_OutboundFrameLogged ==
    \A s \in 1..attempts :
        /\ Len(OutboundLogged(s)) = Len(SentOn(s))
        /\ \A i \in 1..Len(SentOn(s)) :
              i <= Len(OutboundLogged(s)) => OutboundLogged(s)[i].msg = SentOn(s)[i].frame

(* frames that reached the socket during session s, in arrival order *)
ArrivedOn(s) == SelectSeq(arrived, LAMBDA a : a.s = s)

Msgs(seq) == [i \in 1..Len(seq) |-> seq[i].msg]

(* frames of session s that arrived and are not yet handled *)
Pending(s) == IF s = attempts THEN inbox ELSE <<>>

(* C11: every inbound frame that was handled has exactly one printed line,
   and that line has the inbound marker, shows the payload verbatim and
   shows the length of the payload (4 for PING). *)
C11_InboundLineCarriesLength ==
    /\ \A s \in 1..attempts :
          Len(InboundLogged(s)) + Len(Pending(s)) = Len(ArrivedOn(s))
    /\ \A i \in 1..Len(out) :
          (out[i].kind = "frame" /\ out[i].marker = InboundMarker) =>
              /\ "message" \in out[i].shows
              /\ "length" \in out[i].shows
              /\ message_data(out[i].msg, TRUE).length = Len(out[i].msg)
              /\ out[i].msg = "PING" => message_data(out[i].msg, TRUE).length = 4

(* the connect / stream / reconnect cycle will make no further attempt *)
LoopEnded == pc \in {"closed", "aborted"}

Lifecycle == {"connecting", "acquiring", "streaming", "cooldown"}

(* C12: once started, the cycle ends only by an interrupt (no error, auth
   failure or close ends it), and in every lifecycle state an interrupt can
   be delivered and ends it. *)
C12_OnlyInterruptEnds ==
    /\ [][ (LoopEnded' /\ ~LoopEnded) => pc' = "aborted" ]_vars
    /\ [](pc \in Lifecycle => ENABLED Interrupt)

(* C13: after an interrupt no reconnect timer is pending, the transport is
   not open, and no connection attempt follows. *)
C13_InterruptReleases ==
    /\ [](pc = "aborted" => (timers = <<>> /\ sock # "open"))
    /\ [][ pc = "aborted" => attempts' = attempts ]_vars

(* C14: at most one reconnect timer exists, none while a transport is open,
   connecting or acquiring; and a connection attempt starts only when no
   transport is open, no acquisition is running and no other timer is left. *)
C14_OneSessionAtATime ==
    [][ /\ Len(timers') <= 1
        /\ timers' # <<>> => (sock' # "open" /\ pc' \in {"cooldown", "aborted"})
        /\ attempts' = attempts + 1 =>
              (sock # "open" /\ pc \notin {"connecting", "acquiring"} /\ timers' = <<>>)
      ]_vars

C14_Witness ==
    /\ attempts >= 2
    /\ (attempts - 1) \in opened
    /\ SentOn(attempts - 1) # <<>>
    /\ pc = "connecting"
    /\ timers = <<>>

(* C15: every close and every error, whatever the number of earlier
   attempts, leaves exactly one reconnect timer of the same fixed delay, so
   that a new attempt follows. *)
C15_EveryEndSchedulesRetry ==
    [][ (nErrors' = nErrors + 1 \/ (pc' = "closed" /\ pc # "closed"))
          => /\ Len(timers') = 1
             /\ timers'[1] = ReconnectDelay
      ]_vars

(* C16: while get_signature is running nothing has been sent on the
   session, no inbound line of it has been printed, and every frame the
   peer sent is still waiting unprocessed. *)
C16_SilentWhileAcquiring ==
    pc = "acquiring" =>
        /\ SentOn(attempts) = <<>>
        /\ InboundLogged(attempts) = <<>>
        /\ Msgs(ArrivedOn(attempts)) = inbox

C16_Witness ==
    /\ pc = "acquiring"
    /\ Len(inbox) = 2
    /\ attempts >= 2

(* C17: a step taken while get_signature has not returned sends nothing,
   prints nothing, keeps the transport open, schedules no timer and starts
   no attempt; AwaitingAuth is left only by get_signature returning or
   raising, or by an interrupt. *)
C17_NoTimeoutWhileAcquiring ==
    [][ pc = "acquiring" =>
          /\ timers' = <<>> /\ attempts' = attempts /\ sock' = "open"
          /\ pc' = "acquiring" => (wire' = wire /\ out' = out /\ sigRet' = sigRet)
          /\ pc' # "acquiring" => (pc' = "aborted" \/ sigRet'[attempts] # NoSig)
      ]_vars

C17_Witness ==
    /\ pc = "aborted"
    /\ attempts \in opened
    /\ sigRet[attempts] = NoSig
    /\ SentOn(attempts) = <<>>
    /\ timers = <<>>
    /\ nFrames = MaxFrames

(* C18: in every session the payloads of the inbound lines, followed by the
   frames still waiting, are the frames that arrived, in arrival order. *)
C18_LoggedInArrivalOrder ==
    \A s \in 1..attempts :
        Msgs(InboundLogged(s)) \o Pending(s) = Msgs(ArrivedOn(s))

C18_Witness ==
    \E s \in 1..attempts :
        /\ Len(InboundLogged(s)) = 2
        /\ InboundLogged(s)[1].msg = "SET_ITEMS=coins~5"
        /\ InboundLogged(s)[2].msg = "PING"
        /\ Pending(s) = <<>>

(* C19: handling an inbound frame in the Authenticated state appends one
   inbound line and changes nothing else: same state, nothing sent, same
   signature, same transport, no timer, no attempt. *)
C19_FrameOnlyLogs ==
    [][ (State = "Authenticated" /\ inbox # <<>> /\ inbox' = Tail(inbox)) =>
          /\ State' = "Authenticated"
          /\ out' = Append(out, FrameLine(attempts, InboundMarker, Head(inbox), {"time", "message"}))
          /\ UNCHANGED <<pc, wire, sigRet, sigCalls, sock, timers, attempts, opened>>
      ]_vars

C19_Witness ==
    /\ State = "Authenticated"
    /\ InboundLogged(attempts) # <<>>
    /\ Len(wire) = 1
    /\ timers = <<>>
    /\ sock = "open"

(* C20: at most one frame is sent per session, every frame sent is LOGIN=
   followed by a signature, and a session whose acquisition raised has sent
   nothing. *)
C20_OnlyLoginFrames ==
    /\ \A s \in 1..attempts :
          /\ Len(SentOn(s)) <= 1
          /\ sigRet[s] = Raised => SentOn(s) = <<>>
    /\ \A i \in 1..Len(wire) :
          \E sig \in Signatures : wire[i].frame = "LOGIN=" \o sig

C20_Witness ==
    \E s, t \in 1..attempts :
        /\ sigRet[s] = Raised /\ SentOn(s) = <<>> /\ InboundLogged(s) # <<>>
        /\ Len(SentOn(t)) = 1
        /\ Len(wire) = 1

====
